---- MODULE Spec2Model ----
(***************************************************************************)
(* Demiurgo (src/demiurgo.py): the mission controller of PsicoHackerIA,    *)
(* its policy gate, dynamic tool registry, command cache, output triage    *)
(* and audit log.                                                          *)
(*                                                                         *)
(* Python str values are TLA+ strings; a character is a string of length   *)
(* one.  Python's None is the reserved string None, which no input holds.  *)
(* A call that can raise returns a record whose field exc names the        *)
(* exception ("none" when the call returns).                               *)
(***************************************************************************)
EXTENDS Integers, Sequences, FiniteSets, TLC

VARIABLES
  pc,                    \* position of mission_loop
  mission_log,           \* self.mission_log
  last_output,           \* mission_loop's local last_output
  commander_directive,   \* mission_loop's local commander_directive
  decision,              \* mission_loop's local decision (the pending proposal)
  custom_tools,          \* self.custom_tools
  dynamic_arsenal_file,  \* the file at self.dynamic_arsenal_path
  service_fingerprints,  \* self.service_fingerprints
  _command_cache,        \* module global _command_cache
  CACHEABLE_PREFIXES,    \* module global CACHEABLE_PREFIXES (cleared by --disable-cache)
  cycles,                \* number of oracle calls made so far
  store_calls,           \* every call of self._cache_store made so far, in order
  probe,                 \* the payload a direct caller of the gate asks about
  last_call,             \* observation of the last operation: its inputs and what it did
  log_output_path,       \* self.log_output_path
  files,                 \* the log files on disk: path -> what was written there
  persist_calls,         \* number of calls of self._persist_mission_log made so far
  _command_cache_lock,   \* module global _command_cache_lock: the thread that holds it, or None
  threads,               \* the threads that call the cache: thread -> where it is in its call
  log_history            \* every event appended to self.mission_log so far, in order

vars == <<pc, mission_log, last_output, commander_directive, decision,
          custom_tools, dynamic_arsenal_file, service_fingerprints,
          _command_cache, CACHEABLE_PREFIXES, cycles, store_calls, probe, last_call,
          log_output_path, files, persist_calls, _command_cache_lock, threads, log_history>>

None == "<None>"

\* a local name: Op applied to the value v, which is computed once
With(v, Op(_)) == Op(v)

(***************************************************************************)
(* Python str operations                                                   *)
(***************************************************************************)
CharAt(s, i) == SubSeq(s, i, i)

\* sub in s
Contains(s, sub) ==
  \E i \in 1..(Len(s) - Len(sub) + 1) : SubSeq(s, i, i + Len(sub) - 1) = sub

\* s.find(sub) + 1 (0 when sub does not occur)
Find(s, sub) ==
  IF Contains(s, sub)
  THEN CHOOSE i \in 1..(Len(s) - Len(sub) + 1) :
         /\ SubSeq(s, i, i + Len(sub) - 1) = sub
         /\ \A j \in 1..(i - 1) : SubSeq(s, j, j + Len(sub) - 1) # sub
  ELSE 0

Whitespace == {" ", "\t", "\n", "\r"}

Min(a, b) == IF a <= b THEN a ELSE b

MinOf(S) == CHOOSE x \in S : \A y \in S : x <= y
\* (the greatest element has no successor in S: tested first, it spares the
\* comparison with every element for most candidates)
MaxOf(S) == CHOOSE x \in S : x + 1 \notin S /\ \A y \in S : y <= x

\* s[i-1:j] for 1 <= i: a slice never reaches past the end of s
Slice(s, i, j) == IF i > j \/ i > Len(s) THEN "" ELSE SubSeq(s, i, Min(j, Len(s)))

\* the index of the first character of s at or after i that is not in C
\* (past the end of s when there is none)
SkipIn(s, i, C) ==
  LET stop == {j \in i..Len(s) : CharAt(s, j) \notin C}
  IN  IF stop # {} THEN MinOf(stop) ELSE IF i > Len(s) THEN i ELSE Len(s) + 1

\* the index of the first character of s at or after i that is in C
SkipNotIn(s, i, C) ==
  LET stop == {j \in i..Len(s) : CharAt(s, j) \in C}
  IN  IF stop # {} THEN MinOf(stop) ELSE IF i > Len(s) THEN i ELSE Len(s) + 1

LStrip(s) == Slice(s, SkipIn(s, 1, Whitespace), Len(s))

RStrip(s) ==
  LET keep == {j \in 1..Len(s) : CharAt(s, j) \notin Whitespace}
  IN  IF keep = {} THEN "" ELSE SubSeq(s, 1, MaxOf(keep))

\* s.strip()
Strip(s) == RStrip(LStrip(s))

\* the longest prefix of s that holds no whitespace
TakeWord(s) == Slice(s, 1, SkipNotIn(s, 1, Whitespace) - 1)

\* s.split(): the whitespace-separated tokens of s, in order
RECURSIVE Split(_)
Split(s) ==
  With(LStrip(s), LAMBDA t :
    IF Len(t) = 0
    THEN <<>>
    ELSE With(TakeWord(t), LAMBDA w : <<w>> \o Split(Slice(t, Len(w) + 1, Len(t)))))

\* s.lower() on the letters the operator prompt can receive
RECURSIVE Lower(_)
Lower(s) ==
  LET low(c) == CASE c = "S" -> "s" [] c = "A" -> "a" [] c = "N" -> "n"
                  [] OTHER -> c
  IN  IF Len(s) = 0 THEN "" ELSE low(CharAt(s, 1)) \o Lower(Slice(s, 2, Len(s)))

Letters ==
  {"a","b","c","d","e","f","g","h","i","j","k","l","m","n","o","p","q","r","s",
   "t","u","v","w","x","y","z",
   "A","B","C","D","E","F","G","H","I","J","K","L","M","N","O","P","Q","R","S",
   "T","U","V","W","X","Y","Z"}

Digits == {"0","1","2","3","4","5","6","7","8","9"}

\* d[k] = v on a dict
DictSet(d, k, v) == [x \in DOMAIN d \cup {k} |-> IF x = k THEN v ELSE d[x]]

\* d.update(e)
DictUpdate(d, e) ==
  [x \in DOMAIN d \cup DOMAIN e |-> IF x \in DOMAIN e THEN e[x] ELSE d[x]]

EmptyDict == [x \in {} |-> ""]

Ret(v) == [exc |-> "none", val |-> v]
Raise(e, v) == [exc |-> e, val |-> v]

(***************************************************************************)
(* The tool catalog and the static allowlist                               *)
(***************************************************************************)
ARSENAL ==
  [ Reconocimiento_Pasivo |->
      [ amass     |-> "amass enum -passive -d {target_domain}",
        subfinder |-> "subfinder -d {target_domain} -silent" ],
    Reconocimiento_Activo_y_Escaneo |->
      [ nmap_quick_scan |-> "nmap -sV --top-ports 1000 -T4 --open -Pn {target}",
        nmap_full_scan  |-> "nmap -sV -p- -T4 --open -Pn {target}" ],
    Enumeracion_y_Analisis_Web |->
      [ whatweb         |-> "whatweb -v --no-errors {target_url}",
        gobuster_common |-> "gobuster dir -u {target_url} -w /usr/share/seclists/Discovery/Web-Content/common.txt -t 50 -k",
        nikto_scan      |-> "nikto -h {target_url} -Tuning 4,5,x" ],
    Analisis_de_Vulnerabilidades_Especificas |->
      [ searchsploit |-> "searchsploit {keyword}" ],
    Explotacion |->
      [ metasploit_exploit |-> "msfconsole -q -x \"{msf_commands}\"" ] ]

\* the first token of every catalog command
_collect_allowed_executables ==
  UNION { { Split(ARSENAL[section][name])[1] : name \in DOMAIN ARSENAL[section] }
          : section \in DOMAIN ARSENAL }

ALLOWED_EXECUTABLES == _collect_allowed_executables

DEFAULT_CACHEABLE_PREFIXES ==
  {"nmap", "whatweb", "amass", "subfinder", "gobuster", "nikto", "searchsploit"}

SEPARATORS == {";", "&&", "|", "||"}

(***************************************************************************)
(* Policy gate                                                             *)
(***************************************************************************)
\* the gate without the composition ban
_is_command_allowed_no_ban(cmd, tools) ==
  With(Split(Strip(cmd)), LAMBDA tokens :
    IF tokens = <<>>
    THEN Raise("IndexError", FALSE)
    ELSE Ret(tokens[1] \in ALLOWED_EXECUTABLES \/ tokens[1] \in DOMAIN tools))

\* the gate that bans only ';' and '&&', as its comment says
_is_command_allowed_no_pipe(cmd, tools) ==
  IF \E sep \in {";", "&&"} : Contains(cmd, sep)
  THEN Ret(FALSE)
  ELSE _is_command_allowed_no_ban(cmd, tools)

\* the gate that accepts when any token is allowed
_is_command_allowed_any_token(cmd, tools) ==
  IF \E sep \in SEPARATORS : Contains(cmd, sep)
  THEN Ret(FALSE)
  ELSE With(Split(Strip(cmd)), LAMBDA tokens :
         IF tokens = <<>>
         THEN Raise("IndexError", FALSE)
         ELSE Ret(\E k \in 1..Len(tokens) :
                    tokens[k] \in ALLOWED_EXECUTABLES \/ tokens[k] \in DOMAIN tools))

\* self._is_command_allowed(cmd), tools = self.custom_tools
_is_command_allowed(cmd, tools) ==
  IF \E sep \in SEPARATORS : Contains(cmd, sep)
  THEN Ret(FALSE)
  ELSE With(Split(Strip(cmd)), LAMBDA tokens :
         IF tokens = <<>>
         THEN Raise("IndexError", FALSE)
         ELSE Ret(tokens[1] \in ALLOWED_EXECUTABLES \/ tokens[1] \in DOMAIN tools))

(***************************************************************************)
(* Tool registry                                                           *)
(***************************************************************************)
\* re.match(r'^[a-zA-Z0-9_\-]+$', name); '$' also matches just before a final newline
MatchSafeName(name) ==
  LET body == IF Len(name) > 0 /\ CharAt(name, Len(name)) = "\n"
              THEN SubSeq(name, 1, Len(name) - 1)
              ELSE name
  IN  /\ Len(body) > 0
      /\ \A i \in 1..Len(body) : CharAt(body, i) \in Letters \cup Digits \cup {"_", "-"}

\* the read-modify-write of the durable file; any exception leaves the file as it was
PersistTool(file, name, template) ==
  CASE file.kind = "absent" -> [kind |-> "dict", data |-> DictSet(EmptyDict, name, template)]
    [] file.kind = "dict"   -> [kind |-> "dict", data |-> DictSet(file.data, name, template)]
    [] OTHER                -> file

\* a registration that writes the durable file but not self.custom_tools
_safe_register_tool_file_only(name, template, tools, file) ==
  IF \E sep \in SEPARATORS : Contains(template, sep)
  THEN [exc |-> "none", val |-> "Plantilla rechazada: contiene separadores peligrosos.",
        custom_tools |-> tools, file |-> file]
  ELSE IF Split(Strip(template)) = <<>>
  THEN [exc |-> "IndexError", val |-> "list index out of range",
        custom_tools |-> tools, file |-> file]
  ELSE IF ~MatchSafeName(name)
  THEN [exc |-> "none", val |-> "Nombre de herramienta invalido.",
        custom_tools |-> tools, file |-> file]
  ELSE [exc |-> "none", val |-> "Herramienta '" \o name \o "' registrada localmente.",
        custom_tools |-> tools,
        file |-> PersistTool(file, name, template)]

\* self._safe_register_tool(name, template): the returned message (or the
\* exception), self.custom_tools and the durable file after the call
_safe_register_tool(name, template, tools, file) ==
  IF \E sep \in SEPARATORS : Contains(template, sep)
  THEN [exc |-> "none", val |-> "Plantilla rechazada: contiene separadores peligrosos.",
        custom_tools |-> tools, file |-> file]
  ELSE IF Split(Strip(template)) = <<>>
  THEN [exc |-> "IndexError", val |-> "list index out of range",
        custom_tools |-> tools, file |-> file]
  ELSE IF ~MatchSafeName(name)
  THEN [exc |-> "none", val |-> "Nombre de herramienta invalido.",
        custom_tools |-> tools, file |-> file]
  ELSE [exc |-> "none", val |-> "Herramienta '" \o name \o "' registrada localmente.",
        custom_tools |-> DictSet(tools, name, template),
        file |-> PersistTool(file, name, template)]

\* self._load_dynamic_arsenal(): self.custom_tools after the load
_load_dynamic_arsenal(tools, file) ==
  IF file.kind = "dict" THEN DictUpdate(tools, file.data) ELSE tools

(***************************************************************************)
(* Command cache                                                           *)
(***************************************************************************)
\* a lookup keyed by the leading token instead of the command
_cache_lookup_by_token(cmd, cache, prefixes) ==
  With(Split(cmd), LAMBDA tokens :
    IF tokens = <<>>
    THEN Raise("IndexError", None)
    ELSE IF tokens[1] \notin prefixes
         THEN Ret(None)
         ELSE Ret(IF tokens[1] \in DOMAIN cache THEN cache[tokens[1]] ELSE None))

\* self._cache_lookup(cmd)
_cache_lookup(cmd, cache, prefixes) ==
  With(Split(cmd), LAMBDA tokens :
    IF tokens = <<>>
    THEN Raise("IndexError", None)
    ELSE IF tokens[1] \notin prefixes
         THEN Ret(None)
         ELSE Ret(IF cmd \in DOMAIN cache THEN cache[cmd] ELSE None))

\* a store that does not look at the leading token
_cache_store_any_prefix(cmd, value, cache, prefixes) ==
  With(Split(cmd), LAMBDA tokens :
    IF tokens = <<>>
    THEN Raise("IndexError", cache)
    ELSE Ret(DictSet(cache, cmd, value)))

\* a store that keeps the first value stored for a command
_cache_store_keep_first(cmd, value, cache, prefixes) ==
  With(Split(cmd), LAMBDA tokens :
    IF tokens = <<>>
    THEN Raise("IndexError", cache)
    ELSE IF tokens[1] \in prefixes /\ cmd \notin DOMAIN cache
         THEN Ret(DictSet(cache, cmd, value))
         ELSE Ret(cache))

\* self._cache_store(cmd, value): the exception, and _command_cache after the call
_cache_store(cmd, value, cache, prefixes) ==
  With(Split(cmd), LAMBDA tokens :
    IF tokens = <<>>
    THEN Raise("IndexError", cache)
    ELSE IF tokens[1] \in prefixes
         THEN Ret(DictSet(cache, cmd, value))
         ELSE Ret(cache))

(***************************************************************************)
(* Output triage                                                           *)
(***************************************************************************)
\* one attempt of r'(\d+/tcp|\d+/udp)\s+open\s+(\S+)\s+(.*)' at index i of s.
\* \s matches line breaks too; (.*) stops at the next line break.
MatchOpenPort(s, i) ==
  With(SkipIn(s, i, Digits), LAMBDA a :
  With(SkipIn(s, a + 4, Whitespace), LAMBDA c :
  With(SkipIn(s, c + 4, Whitespace), LAMBDA e :
  With(SkipNotIn(s, e, Whitespace), LAMBDA f :
  With(SkipIn(s, f, Whitespace), LAMBDA g :
  With(SkipNotIn(s, g, {"\n"}), LAMBDA h :
    [ ok  |-> /\ a > i
              /\ Slice(s, a, a + 3) \in {"/tcp", "/udp"}
              /\ c > a + 4
              /\ Slice(s, c, c + 3) = "open"
              /\ e > c + 4
              /\ f > e
              /\ g > f,
      p   |-> Slice(s, i, a + 3),
      sv  |-> Slice(s, e, f - 1),
      v   |-> Slice(s, g, h - 1),
      end |-> h ]))))))

\* re.findall(r'^...', s, re.MULTILINE), scanning from index i: the (p, s, v)
\* groups.  '^' matches at index 1 and after every line break.
RECURSIVE FindOpenPorts(_, _)
FindOpenPorts(s, i) ==
  With({j \in i..Len(s) : (j = 1 \/ CharAt(s, j - 1) = "\n") /\ MatchOpenPort(s, j).ok},
       LAMBDA starts :
    IF starts = {}
    THEN <<>>
    ELSE With(MatchOpenPort(s, MinOf(starts)), LAMBDA m :
           <<[p |-> m.p, s |-> m.sv, v |-> m.v]>> \o FindOpenPorts(s, m.end)))

\* "\n".join(lines)
RECURSIVE JoinLines(_)
JoinLines(lines) ==
  IF lines = <<>> THEN ""
  ELSE IF Len(lines) = 1 THEN lines[1]
  ELSE lines[1] \o "\n" \o JoinLines(Tail(lines))

FINGERPRINT_MAX_CHARS == 120
TRIAGE_MAX_CHARS == 2000

\* a triage that adds the matches to the fingerprints without cutting them
_triage_output_uncut(tool_output, tool_name, fingerprints) ==
  IF tool_output = "" \/ Strip(tool_output) = ""
  THEN [val |-> "La herramienta no produjo ninguna salida.",
        service_fingerprints |-> fingerprints]
  ELSE IF Contains(tool_name, "nmap")
  THEN With(FindOpenPorts(tool_output, 1), LAMBDA open_ports :
         IF open_ports = <<>>
         THEN [val |-> "Nmap no encontro puertos abiertos.",
               service_fingerprints |-> fingerprints]
         ELSE [val |-> "Puertos Abiertos Encontrados:\n" \o
                       JoinLines([k \in 1..Len(open_ports) |->
                         "- " \o open_ports[k].p \o " " \o open_ports[k].s
                              \o " " \o open_ports[k].v]),
               service_fingerprints |-> fingerprints \cup
                 { open_ports[k].p \o " " \o open_ports[k].s \o " "
                           \o Strip(open_ports[k].v)
                   : k \in 1..Len(open_ports) }])
  ELSE [val |-> IF Len(tool_output) > TRIAGE_MAX_CHARS
                THEN Slice(tool_output, 1, TRIAGE_MAX_CHARS) \o "..."
                ELSE tool_output,
        service_fingerprints |-> fingerprints]

\* a triage that takes the scanner branch before it looks for an empty output
_triage_output_scanner_first(tool_output, tool_name, fingerprints) ==
  IF Contains(tool_name, "nmap")
  THEN With(FindOpenPorts(tool_output, 1), LAMBDA open_ports :
         IF open_ports = <<>>
         THEN [val |-> "Nmap no encontro puertos abiertos.",
               service_fingerprints |-> fingerprints]
         ELSE [val |-> "Puertos Abiertos Encontrados:\n" \o
                       JoinLines([k \in 1..Len(open_ports) |->
                         "- " \o open_ports[k].p \o " " \o open_ports[k].s
                              \o " " \o open_ports[k].v]),
               service_fingerprints |-> fingerprints \cup
                 { Slice(open_ports[k].p \o " " \o open_ports[k].s \o " "
                           \o Strip(open_ports[k].v), 1, FINGERPRINT_MAX_CHARS)
                   : k \in 1..Len(open_ports) }])
  ELSE IF tool_output = "" \/ Strip(tool_output) = ""
  THEN [val |-> "La herramienta no produjo ninguna salida.",
        service_fingerprints |-> fingerprints]
  ELSE [val |-> IF Len(tool_output) > TRIAGE_MAX_CHARS
                THEN Slice(tool_output, 1, TRIAGE_MAX_CHARS) \o "..."
                ELSE tool_output,
        service_fingerprints |-> fingerprints]

\* self._triage_output(tool_output, tool_name): the returned text and
\* self.service_fingerprints after the call
_triage_output(tool_output, tool_name, fingerprints) ==
  IF tool_output = "" \/ Strip(tool_output) = ""
  THEN [val |-> "La herramienta no produjo ninguna salida.",
        service_fingerprints |-> fingerprints]
  ELSE IF Contains(tool_name, "nmap")
  THEN With(FindOpenPorts(tool_output, 1), LAMBDA open_ports :
         IF open_ports = <<>>
         THEN [val |-> "Nmap no encontro puertos abiertos.",
               service_fingerprints |-> fingerprints]
         ELSE [val |-> "Puertos Abiertos Encontrados:\n" \o
                       JoinLines([k \in 1..Len(open_ports) |->
                         "- " \o open_ports[k].p \o " " \o open_ports[k].s
                              \o " " \o open_ports[k].v]),
               service_fingerprints |-> fingerprints \cup
                 { Slice(open_ports[k].p \o " " \o open_ports[k].s \o " "
                           \o Strip(open_ports[k].v), 1, FINGERPRINT_MAX_CHARS)
                   : k \in 1..Len(open_ports) }])
  ELSE [val |-> IF Len(tool_output) > TRIAGE_MAX_CHARS
                THEN Slice(tool_output, 1, TRIAGE_MAX_CHARS) \o "..."
                ELSE tool_output,
        service_fingerprints |-> fingerprints]

\* self._web_search_stub(query): two simulated results naming the query
_web_search_stub(query) ==
  "[{\"titulo\": \"Resultado simulado 1 para '" \o query \o "'\"}, "
    \o "{\"titulo\": \"Resultado simulado 2 para '" \o query \o "'\"}]"

(***************************************************************************)
(* Executor                                                                *)
(***************************************************************************)
CACHE_MARKER == "\n(CACHE)"

\* self.execute_action(action).  outcome is what subprocess.run does if it is
\* reached: it completes with stdout + stderr, or raises.  The result holds the
\* returned text, the state the call leaves, did: what the call did ("spawn",
\* "cache_hit", "web_search", "register" or "nothing"), and store_calls: the
\* calls of self._cache_store it made.
execute_action(action, tools, file, cache, prefixes, fingerprints, outcome) ==
  LET action_type == action.tipo
      payload == action.payload
      same(v, did) ==
        [val |-> v, custom_tools |-> tools, file |-> file, cache |-> cache,
         service_fingerprints |-> fingerprints, did |-> did, store_calls |-> <<>>]
      critical(e) == "Error Critico durante la ejecucion: " \o e
  IN
  IF payload = None \/ payload = ""
  THEN same("Error: No se proporciono 'payload' en la accion.", "nothing")
  ELSE IF action_type = "COMANDO_SHELL"
  THEN With(_is_command_allowed(payload, tools), LAMBDA allowed :
       IF allowed.exc # "none"
       THEN same(critical("list index out of range"), "nothing")
       ELSE IF ~allowed.val
       THEN same("Comando rechazado por politica de seguridad local (no permitido).",
                 "nothing")
       ELSE With(_cache_lookup(payload, cache, prefixes), LAMBDA cached :
            IF cached.exc # "none"
            THEN same(critical("list index out of range"), "nothing")
            ELSE IF cached.val # None /\ cached.val # ""
            THEN same(cached.val \o CACHE_MARKER, "cache_hit")
            ELSE IF outcome.kind = "timeout"
            THEN same(critical("Command '" \o payload
                                 \o "' timed out after 900 seconds"), "spawn")
            ELSE IF outcome.kind = "oserror"
            THEN same(critical("[Errno 12] Cannot allocate memory"), "spawn")
            ELSE With(_triage_output(outcome.output,
                                     IF action.herramienta = None THEN "shell"
                                     ELSE action.herramienta,
                                     fingerprints), LAMBDA triaged :
                 With(_cache_store(payload, triaged.val, cache, prefixes), LAMBDA stored :
                   [val |-> IF stored.exc # "none"
                            THEN critical("list index out of range")
                            ELSE triaged.val,
                    custom_tools |-> tools, file |-> file,
                    cache |-> stored.val,
                    service_fingerprints |-> triaged.service_fingerprints,
                    did |-> "spawn",
                    store_calls |-> <<[cmd |-> payload, value |-> triaged.val]>>]))))
  ELSE IF action_type = "BUSQUEDA_WEB_NATIVA"
  THEN same(_web_search_stub(payload), "web_search")
  ELSE IF action_type = "EJECUCION_DE_CODIGO_NATIVA"
  THEN IF Contains(payload, "::")
       THEN With(Find(payload, "::"), LAMBDA k :
            With(_safe_register_tool(Strip(Slice(payload, 1, k - 1)),
                                     Strip(Slice(payload, k + 2, Len(payload))),
                                     tools, file), LAMBDA r :
              [val |-> IF r.exc # "none" THEN critical(r.val) ELSE r.val,
               custom_tools |-> r.custom_tools, file |-> r.file, cache |-> cache,
               service_fingerprints |-> fingerprints, did |-> "register",
               store_calls |-> <<>>]))
       ELSE same("Formato para creacion de herramienta invalido. Usa NOMBRE::COMANDO",
                 "nothing")
  ELSE same("Accion '" \o action_type \o "' no implementada para ejecucion directa.",
            "nothing")

(***************************************************************************)
(* Decision parsing                                                        *)
(*                                                                         *)
(* A decoded JSON value is a record tagged by json: "dict" (an action      *)
(* object; a key it lacks is None), "emptydict", "str", "absent" (the key  *)
(* is not there, so dict.get gives None) and "none" (Python's None).       *)
(***************************************************************************)
JNone == [json |-> "none"]
JAbsent == [json |-> "absent"]
JEmptyDict == [json |-> "emptydict"]
JStr(s) == [json |-> "str", s |-> s]
Action(tipo, herramienta, payload) ==
  [json |-> "dict", tipo |-> tipo, herramienta |-> herramienta, payload |-> payload]
Decision(accion_propuesta, accion_a_ejecutar) ==
  [json |-> "dict", pensamiento_estrategico |-> "recon",
   accion_propuesta |-> accion_propuesta, accion_a_ejecutar |-> accion_a_ejecutar]

\* bool(v)
Truthy(v) == v.json = "dict" \/ (v.json = "str" /\ v.s # "")
\* isinstance(v, dict)
IsDict(v) == v.json \in {"dict", "emptydict"}

\* the loop of self._extract_json_block from index i with the depth counted
\* so far: the index of the '}' at which the depth returns to zero, 0 when it
\* never does.  Only braces change the depth, so the loop is taken brace by brace.
RECURSIVE BalanceEnd(_, _, _)
BalanceEnd(text, i, depth) ==
  With(SkipNotIn(text, i, {"{", "}"}), LAMBDA j :
    IF j > Len(text)
    THEN 0
    ELSE IF CharAt(text, j) = "{"
    THEN BalanceEnd(text, j + 1, depth + 1)
    ELSE IF depth - 1 = 0 THEN j ELSE BalanceEnd(text, j + 1, depth - 1))

\* an extractor that stops at the first '}' after the first '{'
_extract_json_block_first_close(text) ==
  With(Find(text, "{"), LAMBDA start :
    IF start = 0
    THEN None
    ELSE With(SkipNotIn(text, start, {"}"}), LAMBDA i :
           IF i > Len(text) THEN None ELSE SubSeq(text, start, i)))

\* self._extract_json_block(text)
_extract_json_block(text) ==
  With(Find(text, "{"), LAMBDA start :
    IF start = 0
    THEN None
    ELSE With(BalanceEnd(text, start, 0), LAMBDA i :
           IF i = 0 THEN None ELSE SubSeq(text, start, i)))

\* json.dumps without spaces, for the values above
Quote(s) == "\"" \o s \o "\""

RECURSIVE JoinComma(_)
JoinComma(parts) ==
  IF parts = <<>> THEN ""
  ELSE IF Len(parts) = 1 THEN parts[1]
  ELSE parts[1] \o "," \o JoinComma(Tail(parts))

JsonDumpsValue(v) ==
  CASE v.json = "str" -> Quote(v.s)
    [] v.json = "emptydict" -> "{}"
    [] v.json = "dict" ->
         "{" \o JoinComma(
           (IF v.tipo = None THEN <<>> ELSE <<Quote("tipo") \o ":" \o Quote(v.tipo)>>)
           \o (IF v.herramienta = None THEN <<>>
               ELSE <<Quote("herramienta") \o ":" \o Quote(v.herramienta)>>)
           \o (IF v.payload = None THEN <<>>
               ELSE <<Quote("payload") \o ":" \o Quote(v.payload)>>)) \o "}"

JsonDumps(d) ==
  IF d.json = "emptydict"
  THEN "{}"
  ELSE "{" \o JoinComma(
         <<Quote("pensamiento_estrategico") \o ":" \o Quote(d.pensamiento_estrategico)>>
         \o (IF d.accion_propuesta.json = "absent" THEN <<>>
             ELSE <<Quote("accion_propuesta") \o ":" \o JsonDumpsValue(d.accion_propuesta)>>)
         \o (IF d.accion_a_ejecutar.json = "absent" THEN <<>>
             ELSE <<Quote("accion_a_ejecutar") \o ":" \o JsonDumpsValue(d.accion_a_ejecutar)>>))
       \o "}"

(***************************************************************************)
(* Audit log persistence                                                   *)
(*                                                                         *)
(* A log file is a record: gzip tells whether its bytes are a gzip stream, *)
(* data is the text that was written (for a gzip stream, the text it       *)
(* decompresses to).                                                       *)
(***************************************************************************)
\* n copies of s
RECURSIVE Repeat(_, _)
Repeat(s, n) ==
  IF n = 0 THEN ""
  ELSE IF n = 1 THEN s
  ELSE With(Repeat(s, n \div 2), LAMBDA h :
         h \o h \o (IF n % 2 = 1 THEN s ELSE ""))

RECURSIVE JoinSep(_, _)
JoinSep(parts, sep) ==
  IF parts = <<>> THEN ""
  ELSE IF Len(parts) = 1 THEN parts[1]
  ELSE parts[1] \o sep \o JoinSep(Tail(parts), sep)

\* the characters json.dump writes as an escape sequence
JsonSpecial == {"\"", "\\", "\n"}

\* the body of a JSON string literal for s
RECURSIVE JsonEscape(_)
JsonEscape(s) ==
  With(SkipNotIn(s, 1, JsonSpecial), LAMBDA i :
    IF i > Len(s)
    THEN s
    ELSE Slice(s, 1, i - 1)
         \o (CASE CharAt(s, i) = "\"" -> "\\\""
               [] CharAt(s, i) = "\\" -> "\\\\"
               [] CharAt(s, i) = "\n" -> "\\n")
         \o JsonEscape(Slice(s, i + 1, Len(s))))

\* the keys of a log entry in the order the dict was built
KeyOrder(e) ==
  CASE DOMAIN e = {"timestamp", "action", "output"} -> <<"timestamp", "action", "output">>
    [] DOMAIN e = {"evento", "objetivo"} -> <<"evento", "objetivo">>

\* one dict of json.dump(..., indent=2), at nesting level one
JsonDumpEntry(e) ==
  "  {\n"
  \o JoinSep([k \in 1..Len(KeyOrder(e)) |->
               "    " \o Quote(KeyOrder(e)[k]) \o ": "
               \o Quote(JsonEscape(e[KeyOrder(e)[k]]))], ",\n")
  \o "\n  }"

\* json.dump(log, f, ensure_ascii=False, indent=2)
JsonDumpIndented(log) ==
  IF log = <<>>
  THEN "[]"
  ELSE "[\n" \o JoinSep([k \in 1..Len(log) |-> JsonDumpEntry(log[k])], ",\n") \o "\n]"

\* the size above which the written log is compressed
COMPRESS_THRESHOLD == 50 * 1024

\* fs without the file at path
Remove(fs, path) == [p \in DOMAIN fs \ {path} |-> fs[p]]

\* self._persist_mission_log() at time now; io is "ok" or the reason open fails
_persist_mission_log(log, path, fs, now, io) ==
  IF log = <<>>
  THEN [val |-> None, log_output_path |-> path, files |-> fs]
  ELSE With(IF path = None \/ path = "" THEN "mission_log_" \o now \o ".json" ELSE path,
         LAMBDA out :
           IF io # "ok"
           THEN [val |-> None, log_output_path |-> out, files |-> fs]
           ELSE With(JsonDumpIndented(log), LAMBDA text :
                  IF Len(text) > COMPRESS_THRESHOLD
                  THEN [val |-> None, log_output_path |-> out \o ".gz",
                        files |-> DictSet(Remove(fs, out), out \o ".gz",
                                          [gzip |-> TRUE, data |-> text])]
                  ELSE [val |-> None, log_output_path |-> out,
                        files |-> DictSet(fs, out, [gzip |-> FALSE, data |-> text])]))

(***************************************************************************)
(* The inputs of a mission                                                 *)
(***************************************************************************)
TARGET == "10.0.0.5"

ShellNmap      == Action("COMANDO_SHELL", "nmap_quick_scan", "nmap -sV 10.0.0.5")
ShellChained   == Action("COMANDO_SHELL", "nmap_quick_scan", "nmap -sV 10.0.0.5; id")
ShellDynamic   == Action("COMANDO_SHELL", None, "mi_tool --x")
ShellBlank     == Action("COMANDO_SHELL", None, "  ")
ShellNoPayload == Action("COMANDO_SHELL", "nmap_quick_scan", None)
CodeRegister   == Action("EJECUCION_DE_CODIGO_NATIVA", None, "mi_tool::whatweb {target}")
CodeBadName    == Action("EJECUCION_DE_CODIGO_NATIVA", None, "b@d::")
WebSearch      == Action("BUSQUEDA_WEB_NATIVA", None, "apache 2.4.41 cve")
UnknownKind    == Action("DESCARGA_REMOTA", None, "nmap -sV 10.0.0.5")

\* the decisions the oracle's replies can decode to
Decisions ==
  { Decision(a, JAbsent) :
      a \in {ShellNmap, ShellChained, ShellDynamic, ShellBlank, ShellNoPayload,
             CodeRegister, CodeBadName, UnknownKind} }
  \cup { Decision(JAbsent, WebSearch),
         Decision(JAbsent, JAbsent),
         Decision(JStr("nmap -sV 10.0.0.5"), JAbsent),
         JEmptyDict }

\* json.loads(block), on the texts the oracle can emit: every other text the
\* model feeds it is malformed and raises
json_loads(block) ==
  IF \E d \in Decisions : JsonDumps(d) = block
  THEN Ret(CHOOSE d \in Decisions : JsonDumps(d) = block)
  ELSE Raise("JSONDecodeError", JNone)

\* what self.model.generate_content(prompt) does: it returns a text or raises
OracleReplies ==
  { [kind |-> "text", text |-> "pensando... " \o JsonDumps(d) \o " fin"] : d \in Decisions }
  \cup { [kind |-> "text", text |-> "no tengo un plan"],
         [kind |-> "text", text |-> "plan: {\"pensamiento_estrategico\":\"recon\""],
         [kind |-> "text", text |-> "plan: {recon} fin"],
         [kind |-> "text", text |-> ""],
         [kind |-> "error", text |-> ""] }

\* self.get_ai_decision(context_summary): the decoded decision, or JNone
get_ai_decision(reply) ==
  IF reply.kind = "error"
  THEN JNone
  ELSE With(_extract_json_block(reply.text), LAMBDA json_block :
         IF json_block = None \/ json_block = ""
         THEN JNone
         ELSE With(json_loads(json_block), LAMBDA loaded :
                IF loaded.exc # "none" THEN JNone ELSE loaded.val))

\* what subprocess.run(payload, shell=True, ..., timeout=900) does
\* the output of a scan: two open ports, one of them reported twice and one
\* with a version text of more than FINGERPRINT_MAX_CHARS characters
NmapOutput ==
  "Starting Nmap 7.94\n80/tcp open http Apache/2.4.41\n443/tcp  open  ssl/http "
    \o Repeat("v", 130) \o "  \n22/tcp closed ssh OpenSSH\n80/tcp open http Apache/2.4.41\n"

ProcessOutcomes ==
  { [kind |-> "completed", output |-> NmapOutput],
    [kind |-> "completed", output |-> ""],
    [kind |-> "timeout", output |-> ""],
    [kind |-> "oserror", output |-> ""] }
NoOutcome == [kind |-> "none", output |-> ""]
NoReply == [kind |-> "none", text |-> ""]

\* what input() returns at the authorization prompt, and at the directive prompt
AuthInputs == {"s", "S", "a", "n", "salir", ""}
Directives == {"solo reconocimiento pasivo"}

\* the durable registry file found at startup
ArsenalFiles ==
  { [kind |-> "absent", data |-> EmptyDict],
    [kind |-> "dict", data |-> DictSet(EmptyDict, "viejo_tool", "nikto -h {target}")] }

MaxCycles == 2

\* self._max_log_entries: 200 in the source, scaled down so that a mission of
\* MaxCycles cycles can fill the log
_max_log_entries == 2

(***************************************************************************)
(* The mission controller                                                  *)
(***************************************************************************)
\* the threads that may call the cache at the same time
Threads == {"t1", "t2"}

\* a thread that is in no call
Idle == [pc |-> "idle", call |-> None, cmd |-> None, value |-> None, ret |-> None]

\* self.mission_log as __init__ leaves it
InitialLog == <<[evento |-> "Inicio de campana", objetivo |-> TARGET]>>

\* a directory that holds no log file
NoFiles == [p \in {} |-> [gzip |-> FALSE, data |-> ""]]

\* what the last operation was given and did
Obs(op, reply, auth, action, did, outcome, directive) ==
  [op |-> op, reply |-> reply, auth |-> auth, action |-> action, did |-> did,
   outcome |-> outcome, directiva_comandante |-> directive]

\* PsicoHackerIA(target) in a process whose CACHEABLE_PREFIXES is prefixes and
\* whose working directory holds one of the registry files found
ConstructedFrom(prefixes, found) ==
  /\ mission_log = InitialLog
  /\ last_output = "El objetivo inicial es " \o TARGET
  /\ commander_directive = None
  /\ decision = JNone
  /\ \E file \in found :
       /\ dynamic_arsenal_file = file
       /\ custom_tools = _load_dynamic_arsenal(EmptyDict, file)
  /\ service_fingerprints = {}
  /\ _command_cache = EmptyDict
  /\ CACHEABLE_PREFIXES = prefixes
  /\ cycles = 0
  /\ store_calls = <<>>
  /\ log_output_path = None
  /\ files = NoFiles
  /\ persist_calls = 0
  /\ _command_cache_lock = None
  /\ threads = [t \in Threads |-> Idle]
  /\ log_history = InitialLog
  /\ last_call = Obs("init", NoReply, None, JNone, "nothing", NoOutcome, None)

\* PsicoHackerIA(target) where the registry file is absent or was written by
\* earlier registrations
Constructed(prefixes) == ConstructedFrom(prefixes, ArsenalFiles)

\* the state in which __main__ calls mission_loop: --disable-cache has
\* cleared CACHEABLE_PREFIXES or not
Init ==
  /\ pc = "AWAITING_DECISION"
  /\ probe = None
  /\ \E disable_cache \in BOOLEAN :
       Constructed(IF disable_cache THEN {} ELSE DEFAULT_CACHEABLE_PREFIXES)

\* decision.get("accion_propuesta") or decision.get("accion_a_ejecutar")
ActionToExecute(d) ==
  IF Truthy(d.accion_propuesta) THEN d.accion_propuesta ELSE d.accion_a_ejecutar

\* a truncation that keeps the oldest entry and drops from the middle
AppendExecuted_drop_middle(log, event) ==
  LET appended == Append(log, event)
  IN  IF Len(appended) > _max_log_entries
      THEN <<appended[1]>>
           \o SubSeq(appended, Len(appended) - _max_log_entries + 2, Len(appended))
      ELSE appended

\* a truncation that keeps the oldest entries
AppendExecuted_keep_oldest(log, event) ==
  LET appended == Append(log, event)
  IN  IF Len(appended) > _max_log_entries
      THEN SubSeq(appended, 1, _max_log_entries)
      ELSE appended

\* the log after an approved action: the append, then the truncation
AppendExecuted(log, event) ==
  LET appended == Append(log, event)
  IN  IF Len(appended) > _max_log_entries
      THEN SubSeq(appended, Len(appended) - _max_log_entries + 1, Len(appended))
      ELSE appended

\* a loop head that does not reset the directive after using it
AwaitDecision_keep_directive ==
  /\ pc = "AWAITING_DECISION"
  /\ cycles < MaxCycles
  /\ \E reply \in OracleReplies :
       \E d \in {get_ai_decision(reply)} :
           /\ cycles' = cycles + 1
           /\ UNCHANGED commander_directive
           /\ decision' = d
           /\ last_call' = Obs("get_ai_decision", reply, None, JNone, "nothing", NoOutcome,
                               commander_directive)
           /\ IF d.json \in {"none", "emptydict"}
              THEN /\ pc' = "TERMINATED"
                   /\ UNCHANGED <<mission_log, last_output, log_history>>
              ELSE IF ~Truthy(ActionToExecute(d)) \/ ~IsDict(ActionToExecute(d))
              THEN /\ pc' = "AWAITING_DECISION"
                   /\ last_output' = "La ultima respuesta no contenia una 'accion_propuesta' valida. Reformula tu plan."
                   /\ mission_log' = Append(mission_log,
                        [evento |-> "Fallo de formato IA", respuesta_bruta |-> d])
                   /\ log_history' = Append(log_history,
                        [evento |-> "Fallo de formato IA", respuesta_bruta |-> d])
              ELSE /\ pc' = "AWAITING_AUTHORIZATION"
                   /\ UNCHANGED <<mission_log, last_output, log_history>>
  /\ UNCHANGED <<custom_tools, dynamic_arsenal_file, service_fingerprints,
                 _command_cache, CACHEABLE_PREFIXES, store_calls, probe,
                 log_output_path, files, persist_calls,
                 _command_cache_lock, threads>>

\* mission_loop from the head of the loop to the authorization prompt
AwaitDecision ==
  /\ pc = "AWAITING_DECISION"
  /\ cycles < MaxCycles
  /\ \E reply \in OracleReplies :
       \E d \in {get_ai_decision(reply)} :
           /\ cycles' = cycles + 1
           /\ commander_directive' = None
           /\ decision' = d
           /\ last_call' = Obs("get_ai_decision", reply, None, JNone, "nothing", NoOutcome,
                               commander_directive)
           /\ IF d.json \in {"none", "emptydict"}
              THEN /\ pc' = "TERMINATED"
                   /\ UNCHANGED <<mission_log, last_output, log_history>>
              ELSE IF ~Truthy(ActionToExecute(d)) \/ ~IsDict(ActionToExecute(d))
              THEN /\ pc' = "AWAITING_DECISION"
                   /\ last_output' = "La ultima respuesta no contenia una 'accion_propuesta' valida. Reformula tu plan."
                   /\ mission_log' = Append(mission_log,
                        [evento |-> "Fallo de formato IA", respuesta_bruta |-> d])
                   /\ log_history' = Append(log_history,
                        [evento |-> "Fallo de formato IA", respuesta_bruta |-> d])
              ELSE /\ pc' = "AWAITING_AUTHORIZATION"
                   /\ UNCHANGED <<mission_log, last_output, log_history>>
  /\ UNCHANGED <<custom_tools, dynamic_arsenal_file, service_fingerprints,
                 _command_cache, CACHEABLE_PREFIXES, store_calls, probe,
                 log_output_path, files, persist_calls,
                 _command_cache_lock, threads>>

\* auth == 'a'
Refine ==
  /\ pc = "AWAITING_AUTHORIZATION"
  /\ \E auth \in AuthInputs, directive \in Directives :
       /\ Lower(auth) = "a"
       /\ commander_directive' = directive
       /\ last_output' = "El Comandante ha intervenido. Nueva directiva: '" \o directive
                           \o "'. Se debe refinar el plan anterior."
       /\ mission_log' = Append(mission_log,
            [evento |-> "Directiva del Comandante", directiva |-> directive,
             plan_anterior |-> decision])
       /\ log_history' = Append(log_history,
            [evento |-> "Directiva del Comandante", directiva |-> directive,
             plan_anterior |-> decision])
       /\ last_call' = Obs("refine", NoReply, auth, ActionToExecute(decision), "nothing",
                           NoOutcome, None)
  /\ pc' = "AWAITING_DECISION"
  /\ UNCHANGED <<decision, custom_tools, dynamic_arsenal_file, service_fingerprints,
                 _command_cache, CACHEABLE_PREFIXES, cycles, store_calls, probe,
                 log_output_path, files, persist_calls,
                 _command_cache_lock, threads>>

\* the approve branch taken on every answer but 'a'
ApproveAnyAnswer ==
  /\ pc = "AWAITING_AUTHORIZATION"
  /\ \E auth \in AuthInputs, outcome \in ProcessOutcomes :
       \E r \in {execute_action(ActionToExecute(decision), custom_tools,
                                dynamic_arsenal_file, _command_cache,
                                CACHEABLE_PREFIXES, service_fingerprints, outcome)} :
           /\ Lower(auth) # "a"
           /\ last_output' = r.val
           /\ mission_log' = AppendExecuted(mission_log,
                [decision |-> decision, resultado |-> r.val])
           /\ log_history' = Append(log_history,
                [decision |-> decision, resultado |-> r.val])
           /\ custom_tools' = r.custom_tools
           /\ dynamic_arsenal_file' = r.file
           /\ _command_cache' = r.cache
           /\ service_fingerprints' = r.service_fingerprints
           /\ store_calls' = store_calls \o r.store_calls
           /\ last_call' = Obs("execute_action", NoReply, auth, ActionToExecute(decision), r.did,
                               IF r.did = "spawn" THEN outcome ELSE NoOutcome, None)
  /\ pc' = "AWAITING_DECISION"
  /\ UNCHANGED <<decision, commander_directive, CACHEABLE_PREFIXES, cycles, probe,
                 log_output_path, files, persist_calls,
                 _command_cache_lock, threads>>

\* auth == 's'
Approve ==
  /\ pc = "AWAITING_AUTHORIZATION"
  /\ \E auth \in AuthInputs, outcome \in ProcessOutcomes :
       \E r \in {execute_action(ActionToExecute(decision), custom_tools,
                                dynamic_arsenal_file, _command_cache,
                                CACHEABLE_PREFIXES, service_fingerprints, outcome)} :
           /\ Lower(auth) = "s"
           /\ last_output' = r.val
           /\ mission_log' = AppendExecuted(mission_log,
                [decision |-> decision, resultado |-> r.val])
           /\ log_history' = Append(log_history,
                [decision |-> decision, resultado |-> r.val])
           /\ custom_tools' = r.custom_tools
           /\ dynamic_arsenal_file' = r.file
           /\ _command_cache' = r.cache
           /\ service_fingerprints' = r.service_fingerprints
           /\ store_calls' = store_calls \o r.store_calls
           /\ last_call' = Obs("execute_action", NoReply, auth, ActionToExecute(decision), r.did,
                               IF r.did = "spawn" THEN outcome ELSE NoOutcome, None)
  /\ pc' = "AWAITING_DECISION"
  /\ UNCHANGED <<decision, commander_directive, CACHEABLE_PREFIXES, cycles, probe,
                 log_output_path, files, persist_calls,
                 _command_cache_lock, threads>>

\* an abort after which the loop goes on
AbortAndContinue ==
  /\ pc = "AWAITING_AUTHORIZATION"
  /\ \E auth \in AuthInputs :
       /\ Lower(auth) \notin {"a", "s"}
       /\ last_call' = Obs("abort", NoReply, auth, ActionToExecute(decision), "nothing",
                           NoOutcome, None)
  /\ pc' = "AWAITING_DECISION"
  /\ UNCHANGED <<mission_log, last_output, commander_directive, decision,
                 custom_tools, dynamic_arsenal_file, service_fingerprints,
                 _command_cache, CACHEABLE_PREFIXES, cycles, store_calls, probe,
                 log_output_path, files, persist_calls,
                 _command_cache_lock, threads, log_history>>

\* any other answer
Abort ==
  /\ pc = "AWAITING_AUTHORIZATION"
  /\ \E auth \in AuthInputs :
       /\ Lower(auth) \notin {"a", "s"}
       /\ last_call' = Obs("abort", NoReply, auth, ActionToExecute(decision), "nothing",
                           NoOutcome, None)
  /\ pc' = "TERMINATED"
  /\ UNCHANGED <<mission_log, last_output, commander_directive, decision,
                 custom_tools, dynamic_arsenal_file, service_fingerprints,
                 _command_cache, CACHEABLE_PREFIXES, cycles, store_calls, probe,
                 log_output_path, files, persist_calls,
                 _command_cache_lock, threads, log_history>>

Next == AwaitDecision \/ Refine \/ Approve \/ Abort

Spec == Init /\ [][Next]_vars

(***************************************************************************)
(* The program started with --once                                         *)
(***************************************************************************)
\* __main__ from the parsed arguments to the call of mission_loop: both
\* branches of `if args.once` call agent.mission_loop()
Main(once) == IF once THEN Init ELSE Init

OnceSpec == Main(TRUE) /\ [][Next]_vars

(***************************************************************************)
(* Direct calls of the gate and the registry, as tests/test_core.py makes  *)
(***************************************************************************)
MaxPieces == 3

Pieces == {"nmap", "mi_tool", "viejo_tool", " ", ";", "&&", "|"}

\* the texts made of at most n pieces
RECURSIVE Texts(_)
Texts(n) ==
  IF n = 0 THEN {""} ELSE Texts(n - 1) \cup {t \o q : t \in Texts(n - 1), q \in Pieces}

GatePayloads == Texts(MaxPieces)

ToolNames == {"mi_tool", "b@d"}
ToolTemplates == {"whatweb {target}", "nmap -sV {target} | sh", "id; id && id", ""}

\* an agent on which the gate and the registry are called directly
GateInit ==
  /\ pc = "DIRECT_CALLS"
  /\ probe \in GatePayloads
  /\ Constructed(DEFAULT_CACHEABLE_PREFIXES)

\* agent._is_command_allowed(cmd)
IsCommandAllowed ==
  /\ pc = "DIRECT_CALLS"
  /\ \E r \in {_is_command_allowed(probe, custom_tools)} :
       last_call' = [op |-> "_is_command_allowed", cmd |-> probe,
                     exc |-> r.exc, val |-> r.val]
  /\ UNCHANGED <<pc, mission_log, last_output, commander_directive, decision,
                 custom_tools, dynamic_arsenal_file, service_fingerprints,
                 _command_cache, CACHEABLE_PREFIXES, cycles, store_calls, probe,
                 log_output_path, files, persist_calls,
                 _command_cache_lock, threads, log_history>>

\* agent._safe_register_tool(name, template)
RegisterTool ==
  /\ pc = "DIRECT_CALLS"
  /\ \E name \in ToolNames, template \in ToolTemplates :
       \E r \in {_safe_register_tool(name, template, custom_tools, dynamic_arsenal_file)} :
         /\ custom_tools' = r.custom_tools
         /\ dynamic_arsenal_file' = r.file
         /\ last_call' = [op |-> "_safe_register_tool", name |-> name,
                          template |-> template, exc |-> r.exc, val |-> r.val]
  /\ UNCHANGED <<pc, mission_log, last_output, commander_directive, decision,
                 service_fingerprints, _command_cache, CACHEABLE_PREFIXES, cycles,
                 store_calls, probe,
                 log_output_path, files, persist_calls,
                 _command_cache_lock, threads, log_history>>

GateNext == IsCommandAllowed \/ RegisterTool

GateSpec == GateInit /\ [][GateNext]_vars

(***************************************************************************)
(* Startup on a registry file that was not written by _safe_register_tool  *)
(***************************************************************************)
\* dynamic_arsenal.json as it may be found: also edited by hand, holding a
\* JSON list, or not holding JSON at all
RegistryFiles ==
  ArsenalFiles \cup
  { [kind |-> "dict",
     data |-> DictSet(DictSet(EmptyDict, "viejo_tool", "nikto -h {target}"),
                      "r@iz", "sh -c {target} | sh")],
    [kind |-> "list", data |-> EmptyDict],
    [kind |-> "invalid", data |-> EmptyDict] }

StartupProbes == {"r@iz --help", "viejo_tool -h 10.0.0.5", "mi_tool"}

StartupInit ==
  /\ pc = "DIRECT_CALLS"
  /\ probe \in StartupProbes
  /\ ConstructedFrom(DEFAULT_CACHEABLE_PREFIXES, RegistryFiles)

StartupSpec == StartupInit /\ [][GateNext]_vars

(***************************************************************************)
(* Direct calls of the cache                                               *)
(***************************************************************************)
MaxStores == 3

\* commands as execute_action passes them: each passed the gate, so each has a
\* leading token
CacheCommands == {"nmap -sV 127.0.0.1", "nmap  -sV 127.0.0.1", "mi_tool --x",
                  "msfconsole -q"}
CacheValues == {"OK", "Nmap no encontro puertos abiertos."}

\* an agent on which the cache is called directly
CacheInit ==
  /\ pc = "DIRECT_CALLS"
  /\ probe = None
  /\ \E prefixes \in {DEFAULT_CACHEABLE_PREFIXES, {}} : Constructed(prefixes)

\* agent._cache_store(cmd, value)
CacheStore ==
  /\ pc = "DIRECT_CALLS"
  /\ Len(store_calls) < MaxStores
  /\ \E cmd \in CacheCommands, value \in CacheValues :
       \E r \in {_cache_store(cmd, value, _command_cache, CACHEABLE_PREFIXES)} :
         /\ _command_cache' = r.val
         /\ store_calls' = Append(store_calls, [cmd |-> cmd, value |-> value])
         /\ last_call' = [op |-> "_cache_store", cmd |-> cmd, value |-> value,
                          exc |-> r.exc]
  /\ UNCHANGED <<pc, mission_log, last_output, commander_directive, decision,
                 custom_tools, dynamic_arsenal_file, service_fingerprints,
                 CACHEABLE_PREFIXES, cycles, probe,
                 log_output_path, files, persist_calls,
                 _command_cache_lock, threads, log_history>>

\* agent._cache_lookup(cmd)
CacheLookup ==
  /\ pc = "DIRECT_CALLS"
  /\ \E cmd \in CacheCommands :
       \E r \in {_cache_lookup(cmd, _command_cache, CACHEABLE_PREFIXES)} :
         last_call' = [op |-> "_cache_lookup", cmd |-> cmd, exc |-> r.exc, val |-> r.val]
  /\ UNCHANGED <<pc, mission_log, last_output, commander_directive, decision,
                 custom_tools, dynamic_arsenal_file, service_fingerprints,
                 _command_cache, CACHEABLE_PREFIXES, cycles, store_calls, probe,
                 log_output_path, files, persist_calls,
                 _command_cache_lock, threads, log_history>>

CacheNext == CacheStore \/ CacheLookup

CacheSpec == CacheInit /\ [][CacheNext]_vars

(***************************************************************************)
(* Threads that call the cache at the same time                            *)
(*                                                                         *)
(* A call is taken in steps between which the other threads may run: the   *)
(* part before `with _command_cache_lock` (the split of the command and    *)
(* the test against CACHEABLE_PREFIXES), the acquisition of the lock, the  *)
(* statement inside the with block, and the release on leaving it.         *)
(* store_calls holds the stores that have written, in the order they did.  *)
(***************************************************************************)
MaxThreadStores == 2

ThreadCommands == {"nmap -sV 127.0.0.1", "nmap  -sV 127.0.0.1", "mi_tool --x"}

ThreadInit ==
  /\ pc = "DIRECT_CALLS"
  /\ probe = None
  /\ ConstructedFrom(DEFAULT_CACHEABLE_PREFIXES,
                     {[kind |-> "absent", data |-> EmptyDict]})

\* the stores that threads are in the middle of
StoresInFlight == Cardinality({t \in Threads : threads[t].call = "_cache_store"})

\* what a step of a thread's call did
ThreadObs(op, t, call, cmd, val) ==
  [op |-> op, thread |-> t, call |-> call, cmd |-> cmd, val |-> val,
   holder |-> _command_cache_lock]

\* thread t calls _cache_lookup(cmd) or _cache_store(cmd, value) and runs it up
\* to the with statement
ThreadCall(t) ==
  /\ pc = "DIRECT_CALLS"
  /\ threads[t].pc = "idle"
  /\ \E call \in {"_cache_lookup", "_cache_store"}, cmd \in ThreadCommands :
       \E value \in IF call = "_cache_store" THEN CacheValues ELSE {None} :
         /\ call = "_cache_store" => Len(store_calls) + StoresInFlight < MaxThreadStores
         /\ IF Split(cmd) = <<>>
            THEN /\ last_call' = ThreadObs("raise", t, call, cmd, "IndexError")
                 /\ UNCHANGED threads
            ELSE IF Split(cmd)[1] \notin CACHEABLE_PREFIXES
            THEN /\ last_call' = ThreadObs("return", t, call, cmd, None)
                 /\ UNCHANGED threads
            ELSE /\ last_call' = ThreadObs("call", t, call, cmd, None)
                 /\ threads' = [threads EXCEPT ![t] =
                      [pc |-> "acquire", call |-> call, cmd |-> cmd,
                       value |-> value, ret |-> None]]
  /\ UNCHANGED <<pc, mission_log, last_output, commander_directive, decision,
                 custom_tools, dynamic_arsenal_file, service_fingerprints,
                 _command_cache, CACHEABLE_PREFIXES, cycles, store_calls, probe,
                 log_output_path, files, persist_calls, _command_cache_lock,
                 log_history>>

\* a lock that a thread takes without waiting for its holder
ThreadAcquire_no_wait(t) ==
  /\ pc = "DIRECT_CALLS"
  /\ threads[t].pc = "acquire"
  /\ _command_cache_lock' = t
  /\ threads' = [threads EXCEPT ![t].pc = "locked"]
  /\ last_call' = ThreadObs("acquire", t, threads[t].call, threads[t].cmd, None)
  /\ UNCHANGED <<pc, mission_log, last_output, commander_directive, decision,
                 custom_tools, dynamic_arsenal_file, service_fingerprints,
                 _command_cache, CACHEABLE_PREFIXES, cycles, store_calls, probe,
                 log_output_path, files, persist_calls, log_history>>

\* with _command_cache_lock: thread t enters when the lock is free
ThreadAcquire(t) ==
  /\ pc = "DIRECT_CALLS"
  /\ threads[t].pc = "acquire"
  /\ _command_cache_lock = None
  /\ _command_cache_lock' = t
  /\ threads' = [threads EXCEPT ![t].pc = "locked"]
  /\ last_call' = ThreadObs("acquire", t, threads[t].call, threads[t].cmd, None)
  /\ UNCHANGED <<pc, mission_log, last_output, commander_directive, decision,
                 custom_tools, dynamic_arsenal_file, service_fingerprints,
                 _command_cache, CACHEABLE_PREFIXES, cycles, store_calls, probe,
                 log_output_path, files, persist_calls, log_history>>

\* the statement inside the with block: _command_cache.get(cmd) or
\* _command_cache[cmd] = value
ThreadAccess(t) ==
  /\ pc = "DIRECT_CALLS"
  /\ threads[t].pc = "locked"
  /\ IF threads[t].call = "_cache_store"
     THEN /\ _command_cache' = DictSet(_command_cache, threads[t].cmd, threads[t].value)
          /\ store_calls' = Append(store_calls,
               [cmd |-> threads[t].cmd, value |-> threads[t].value])
          /\ threads' = [threads EXCEPT ![t].pc = "release"]
          /\ last_call' = ThreadObs("access", t, threads[t].call, threads[t].cmd,
                                    threads[t].value)
     ELSE /\ threads' = [threads EXCEPT ![t].pc = "release",
                                        ![t].ret =
                                          IF threads[t].cmd \in DOMAIN _command_cache
                                          THEN _command_cache[threads[t].cmd]
                                          ELSE None]
          /\ last_call' = ThreadObs("access", t, threads[t].call, threads[t].cmd,
                                    threads'[t].ret)
          /\ UNCHANGED <<_command_cache, store_calls>>
  /\ UNCHANGED <<pc, mission_log, last_output, commander_directive, decision,
                 custom_tools, dynamic_arsenal_file, service_fingerprints,
                 CACHEABLE_PREFIXES, cycles, probe,
                 log_output_path, files, persist_calls, _command_cache_lock,
                 log_history>>

\* thread t leaves the with block, which releases the lock, and returns
ThreadRelease(t) ==
  /\ pc = "DIRECT_CALLS"
  /\ threads[t].pc = "release"
  /\ _command_cache_lock' = None
  /\ threads' = [threads EXCEPT ![t] = Idle]
  /\ last_call' = ThreadObs("return", t, threads[t].call, threads[t].cmd, threads[t].ret)
  /\ UNCHANGED <<pc, mission_log, last_output, commander_directive, decision,
                 custom_tools, dynamic_arsenal_file, service_fingerprints,
                 _command_cache, CACHEABLE_PREFIXES, cycles, store_calls, probe,
                 log_output_path, files, persist_calls, log_history>>

ThreadNext ==
  \E t \in Threads :
    ThreadCall(t) \/ ThreadAcquire(t) \/ ThreadAccess(t) \/ ThreadRelease(t)

ThreadSpec == ThreadInit /\ [][ThreadNext]_vars

(***************************************************************************)
(* Direct calls of _persist_mission_log, as tests/test_reports.py makes    *)
(***************************************************************************)
MaxPersists == 2

LogEntry(output) ==
  [timestamp |-> "2025-08-15T10:00:00Z", action |-> "test", output |-> output]

\* the characters json.dump writes around the output of a one-entry log
LogOverhead == Len(JsonDumpIndented(<<LogEntry("")>>))

SmallLog    == <<LogEntry("test")>>
LargeLog    == <<LogEntry(Repeat("X", 60000))>>
\* logs that serialize to exactly the threshold and to one byte more
BoundaryLog == <<LogEntry(Repeat("X", COMPRESS_THRESHOLD - LogOverhead))>>
JustOverLog == <<LogEntry(Repeat("X", COMPRESS_THRESHOLD - LogOverhead + 1))>>
TwoEntryLog == <<LogEntry("uno \"dos\"\n"), LogEntry(Repeat("Y", 60000))>>

PersistLogs == {<<>>, SmallLog, LargeLog, BoundaryLog, JustOverLog, TwoEntryLog}

LogPaths == {None, "test_log.json"}

Clock == {"20250815_100000"}

IoOutcomes == {"ok", "oserror"}

\* json.load of a log file's text
json_load(text) ==
  CHOOSE log \in PersistLogs \cup {InitialLog} : JsonDumpIndented(log) = text

PersistInit ==
  /\ pc = "DIRECT_CALLS"
  /\ probe = None
  /\ Constructed(DEFAULT_CACHEABLE_PREFIXES)

\* the test assigns demiurgo.mission_log and demiurgo.log_output_path
Arrange ==
  /\ pc = "DIRECT_CALLS"
  /\ persist_calls < MaxPersists
  /\ \E log \in PersistLogs, path \in LogPaths :
       /\ mission_log' = log
       /\ log_output_path' = path
  /\ last_call' = [op |-> "arrange", out |-> None, io |-> "ok", val |-> None]
  /\ UNCHANGED <<pc, last_output, commander_directive, decision, custom_tools,
                 dynamic_arsenal_file, service_fingerprints, _command_cache,
                 CACHEABLE_PREFIXES, cycles, store_calls, probe, files,
                 persist_calls, _command_cache_lock, threads, log_history>>

\* result_path = demiurgo._persist_mission_log()
Persist ==
  /\ pc = "DIRECT_CALLS"
  /\ persist_calls < MaxPersists
  /\ \E now \in Clock, io \in IoOutcomes :
       \E r \in {_persist_mission_log(mission_log, log_output_path, files, now, io)} :
         /\ log_output_path' = r.log_output_path
         /\ files' = r.files
         /\ last_call' = [op |-> "persist",
                          out |-> IF log_output_path = None \/ log_output_path = ""
                                  THEN "mission_log_" \o now \o ".json"
                                  ELSE log_output_path,
                          io |-> io, val |-> r.val]
  /\ persist_calls' = persist_calls + 1
  /\ UNCHANGED <<pc, mission_log, last_output, commander_directive, decision,
                 custom_tools, dynamic_arsenal_file, service_fingerprints,
                 _command_cache, CACHEABLE_PREFIXES, cycles, store_calls, probe,
                 _command_cache_lock, threads, log_history>>

PersistNext == Arrange \/ Persist

PersistSpec == PersistInit /\ [][PersistNext]_vars

(***************************************************************************)
(* Direct calls of _extract_json_block, as tests/test_core.py makes        *)
(***************************************************************************)
MaxTextLen == 7

BraceChars == {"{", "}", "x"}

\* the texts of at most n characters of BraceChars
RECURSIVE BraceTexts(_)
BraceTexts(n) ==
  IF n = 0 THEN {""}
  ELSE BraceTexts(n - 1) \cup {t \o c : t \in BraceTexts(n - 1), c \in BraceChars}

ParseTexts ==
  BraceTexts(MaxTextLen) \cup {"{\"a\":1,\"b\":2}", "xx {\"x\":5} zz"}

\* an agent whose extractor is about to be called on the text probe
ParseInit ==
  /\ pc = "DIRECT_CALLS"
  /\ probe \in ParseTexts
  /\ Constructed(DEFAULT_CACHEABLE_PREFIXES)

\* block = agent._extract_json_block(probe)
ExtractJsonBlock ==
  /\ pc = "DIRECT_CALLS"
  /\ last_call' = [op |-> "_extract_json_block", text |-> probe,
                   val |-> _extract_json_block(probe)]
  /\ UNCHANGED <<pc, mission_log, last_output, commander_directive, decision,
                 custom_tools, dynamic_arsenal_file, service_fingerprints,
                 _command_cache, CACHEABLE_PREFIXES, cycles, store_calls, probe,
                 log_output_path, files, persist_calls,
                 _command_cache_lock, threads, log_history>>

ParseNext == ExtractJsonBlock

ParseSpec == ParseInit /\ [][ParseNext]_vars

(***************************************************************************)
(* Direct calls of _triage_output                                          *)
(***************************************************************************)
\* what a process may have written: nothing, white space, a scan with open
\* ports, a scan without, a port line whose version is on the next line, and
\* texts around the length at which the triage cuts
TriageOutputs ==
  { "", "  \n", NmapOutput,
    "Starting Nmap 7.94\nAll 1000 scanned ports on 10.0.0.5 are closed\n",
    "53/udp open domain\nISC BIND 9\n",
    "hola",
    Repeat("A", TRIAGE_MAX_CHARS),
    Repeat("A", TRIAGE_MAX_CHARS + 1) }

\* action.get("herramienta", "shell")
TriageTools == {"nmap_quick_scan", "shell", "whatweb_scan", "NMAP"}

TriageInit ==
  /\ pc = "DIRECT_CALLS"
  /\ probe = None
  /\ Constructed(DEFAULT_CACHEABLE_PREFIXES)

\* agent._triage_output(tool_output, tool_name)
Triage ==
  /\ pc = "DIRECT_CALLS"
  /\ \E tool_output \in TriageOutputs, tool_name \in TriageTools :
       \E r \in {_triage_output(tool_output, tool_name, service_fingerprints)} :
         /\ service_fingerprints' = r.service_fingerprints
         /\ last_call' = [op |-> "_triage_output", tool_output |-> tool_output,
                          tool_name |-> tool_name, val |-> r.val]
  /\ UNCHANGED <<pc, mission_log, last_output, commander_directive, decision,
                 custom_tools, dynamic_arsenal_file, _command_cache,
                 CACHEABLE_PREFIXES, cycles, store_calls, probe,
                 log_output_path, files, persist_calls,
                 _command_cache_lock, threads, log_history>>

TriageNext == Triage

TriageSpec == TriageInit /\ [][TriageNext]_vars

(***************************************************************************)
(* Properties                                                              *)
(***************************************************************************)
\* payload contains ';', '&&', '|' or '||'
HasSeparator(payload) ==
  \/ Contains(payload, ";")
  \/ Contains(payload, "&&")
  \/ Contains(payload, "|")
  \/ Contains(payload, "||")

\* t is the first whitespace-separated token of payload
IsFirstToken(payload, t) ==
  /\ Len(t) > 0
  /\ \A k \in 1..Len(t) : CharAt(t, k) \notin Whitespace
  /\ \E i \in 1..Len(payload) :
       /\ \A k \in 1..(i - 1) : CharAt(payload, k) \in Whitespace
       /\ i + Len(t) - 1 <= Len(payload)
       /\ SubSeq(payload, i, i + Len(t) - 1) = t
       /\ (i + Len(t) <= Len(payload) => CharAt(payload, i + Len(t)) \in Whitespace)

\* the first tokens of the catalog's commands
CatalogExecutables ==
  {"amass", "subfinder", "nmap", "whatweb", "gobuster", "nikto", "searchsploit",
   "msfconsole"}

\* payload passes the policy gate when the registered tools are tools
PassesGate(payload, tools) ==
  /\ ~HasSeparator(payload)
  /\ \E t \in CatalogExecutables \cup DOMAIN tools : IsFirstToken(payload, t)

\* C1: a child process is spawned only for a COMANDO_SHELL action whose
\* payload passes the policy gate at that moment: no ';', '&&', '|', '||' in
\* it and its first token in the static allowlist or among the registered
\* tools.  An action of any other kind never spawns a process.
C1_SpawnOnlyAfterGate ==
  (last_call.op = "execute_action" /\ last_call.did = "spawn")
    => /\ last_call.action.tipo = "COMANDO_SHELL"
       /\ PassesGate(last_call.action.payload, custom_tools)

C1_Witness ==
  /\ last_call.op = "execute_action"
  /\ last_call.did = "spawn"
  /\ last_call.action.payload = "mi_tool --x"

\* C2: a proposal's action is executed (a process spawned, the web-search
\* stub called or a tool registered) only in the step in which the operator
\* answers approve to that proposal's prompt; no other step executes anything
\* or changes the registry, its file, the cache or the fingerprints.
C2_Executes ==
  \/ last_call'.did # "nothing"
  \/ custom_tools' # custom_tools
  \/ dynamic_arsenal_file' # dynamic_arsenal_file
  \/ _command_cache' # _command_cache
  \/ store_calls' # store_calls
  \/ service_fingerprints' # service_fingerprints

C2_OnlyApprovedExecutes ==
  [][ C2_Executes =>
        /\ pc = "AWAITING_AUTHORIZATION"
        /\ last_call'.auth \in {"s", "S"}
        /\ last_call'.action = ActionToExecute(decision) ]_vars

C2_Witness ==
  /\ last_call.op = "execute_action"
  /\ last_call.auth = "s"
  /\ last_call.did = "register"
  /\ "mi_tool" \in DOMAIN custom_tools

C4_FirstTokenDecides ==
  (last_call.op = "_is_command_allowed" /\ ~HasSeparator(last_call.cmd))
    => ((last_call.exc = "none" /\ last_call.val = TRUE)
          <=> \E t \in CatalogExecutables \cup DOMAIN custom_tools :
                IsFirstToken(last_call.cmd, t))

C4_Witness ==
  /\ last_call.op = "_is_command_allowed"
  /\ last_call.cmd = "mi_tool nmap"
  /\ "mi_tool" \notin DOMAIN custom_tools
  /\ last_call.val = FALSE

\* C5: the audit log never holds more than N entries, whatever kind of
\* event was appended last.
C5_LogBounded == Len(mission_log) <= _max_log_entries

\* the oracle's reply is a text that holds no decodable decision: no opening
\* brace, no closing brace, or no well-formed block
C6_Unparseable(reply) ==
  /\ reply.kind = "text"
  /\ \/ ~Contains(reply.text, "{")
     \/ ~Contains(reply.text, "}")
     \/ \A d \in Decisions : ~Contains(reply.text, JsonDumps(d))

\* C6: when the oracle's reply cannot be parsed, the controller logs a
\* FormatFailure event, sets the corrective last result and is back in
\* AWAITING_DECISION; it is never TERMINATED by a parse failure.
C6_ParseFailureRecovered ==
  (last_call.op = "get_ai_decision" /\ C6_Unparseable(last_call.reply))
    => /\ pc = "AWAITING_DECISION"
       /\ last_output = "La ultima respuesta no contenia una 'accion_propuesta' valida. Reformula tu plan."
       /\ "evento" \in DOMAIN mission_log[Len(mission_log)]
       /\ mission_log[Len(mission_log)].evento = "Fallo de formato IA"

\* the gate answers true for payload when the registered tools are tools
GateAccepts(payload, tools) ==
  _is_command_allowed(payload, tools) = [exc |-> "none", val |-> TRUE]

\* this step is a call register(name, template) that returns success
RegisteredNow(name) ==
  /\ last_call'.op = "_safe_register_tool"
  /\ last_call'.name = name
  /\ last_call'.exc = "none"
  /\ last_call'.val = "Herramienta '" \o name \o "' registrada localmente."

\* from a successful register(name, template) on, the gate accepts the
\* chaining-free payload whose first token is name; what it accepts it accepts
\* in every later state; and it starts to accept a payload only by a
\* successful registration of the payload's first token
C7_Step ==
  /\ \A name \in ToolNames :
       (RegisteredNow(name) /\ ~HasSeparator(probe) /\ IsFirstToken(probe, name))
         => GateAccepts(probe, custom_tools')
  /\ GateAccepts(probe, custom_tools) => GateAccepts(probe, custom_tools')
  /\ (~GateAccepts(probe, custom_tools) /\ GateAccepts(probe, custom_tools'))
       => \E name \in ToolNames : RegisteredNow(name) /\ IsFirstToken(probe, name)

\* C7 as stated: a payload is rejected before the registration of its first
\* token unless that token is in the static allowlist; from the registration
\* on it is accepted, and it stays accepted.
C7_AcceptedOnlyOnceRegistered ==
  /\ GateAccepts(probe, custom_tools)
       => \E t \in CatalogExecutables : IsFirstToken(probe, t)
  /\ [][C7_Step]_vars

\* C7, amended: a payload is rejected before the registration of its first
\* token unless that token is in the static allowlist or is a name the startup
\* loaded from the durable registry file; from the registration on it is
\* accepted, and it stays accepted.
C7_AcceptedOnceRegisteredOrLoaded ==
  /\ GateAccepts(probe, custom_tools)
       => \E t \in CatalogExecutables \cup DOMAIN dynamic_arsenal_file.data :
            IsFirstToken(probe, t)
  /\ [][C7_Step]_vars

C7_Witness ==
  /\ last_call.op = "_is_command_allowed"
  /\ last_call.cmd = "mi_tool nmap"
  /\ last_call.val = TRUE
  /\ dynamic_arsenal_file.kind = "dict"
  /\ "mi_tool" \in DOMAIN dynamic_arsenal_file.data

\* name holds a character other than letters, digits, '_' and '-'
C8_UnsafeName(name) ==
  \E k \in 1..Len(name) : CharAt(name, k) \notin Letters \cup Digits \cup {"_", "-"}

\* C8: register(name, template) returns a rejection message whenever the
\* template holds ';', '&&', '|' or '||' or the name holds an unsafe
\* character, and a rejection leaves the registry, its durable file and the
\* gate's answers as they were.
C8_UnsafeRegistrationRejected ==
  [][ (/\ last_call'.op = "_safe_register_tool"
       /\ HasSeparator(last_call'.template) \/ C8_UnsafeName(last_call'.name))
        => /\ last_call'.exc = "none"
           /\ last_call'.val \in {"Plantilla rechazada: contiene separadores peligrosos.",
                                  "Nombre de herramienta invalido."}
           /\ custom_tools' = custom_tools
           /\ dynamic_arsenal_file' = dynamic_arsenal_file
           /\ GateAccepts(probe, custom_tools') = GateAccepts(probe, custom_tools) ]_vars

\* the value of the most recent store(cmd, v) among calls, None when there
\* is none
MostRecentStore(calls, cmd) ==
  IF \E k \in 1..Len(calls) : calls[k].cmd = cmd
  THEN calls[CHOOSE k \in 1..Len(calls) :
               /\ calls[k].cmd = cmd
               /\ \A j \in (k + 1)..Len(calls) : calls[j].cmd # cmd].value
  ELSE None

\* C9: after any sequence of stores and lookups, lookup(c) returns the value
\* of the most recent store(c, v) of exactly that command when c's leading
\* token is cacheable, and none otherwise: before any store of c, for another
\* command, and for a command whose leading token is not cacheable.
C9_LookupReturnsMostRecentStore ==
  last_call.op = "_cache_lookup"
    => /\ last_call.exc = "none"
       /\ last_call.val =
            IF \E t \in CACHEABLE_PREFIXES : IsFirstToken(last_call.cmd, t)
            THEN MostRecentStore(store_calls, last_call.cmd)
            ELSE None

C9_Witness ==
  /\ last_call.op = "_cache_lookup"
  /\ last_call.val = "OK"
  /\ Len(store_calls) = 3
  /\ store_calls[1].cmd = last_call.cmd
  /\ store_calls[1].value # "OK"
  /\ store_calls[3].cmd # last_call.cmd

\* C10: when an approved shell command that the gate allows is found in the
\* cache, no process is spawned, the result returned and logged is the stored
\* output followed by the cache marker, and the cache is left as it was; the
\* result of a fresh execution is the text that was stored, without the marker.
C10_CacheHitServedFromCache ==
  [][ (last_call'.op = "execute_action" /\ pc = "AWAITING_AUTHORIZATION")
        => /\ (/\ last_call'.action.tipo = "COMANDO_SHELL"
               /\ last_call'.action.payload \in DOMAIN _command_cache
               /\ PassesGate(last_call'.action.payload, custom_tools))
                => /\ last_call'.did = "cache_hit"
                   /\ last_output' = _command_cache[last_call'.action.payload] \o "\n(CACHE)"
                   /\ mission_log'[Len(mission_log')].resultado = last_output'
                   /\ _command_cache' = _command_cache
                   /\ store_calls' = store_calls
           /\ (last_call'.did = "spawn" /\ last_call'.outcome.kind = "completed")
                => /\ Len(store_calls') = Len(store_calls) + 1
                   /\ store_calls'[Len(store_calls')].cmd = last_call'.action.payload
                   /\ last_output' = store_calls'[Len(store_calls')].value
                   /\ mission_log'[Len(mission_log')].resultado = last_output' ]_vars

C10_Witness ==
  /\ last_call.op = "execute_action"
  /\ last_call.did = "cache_hit"
  /\ last_output = _command_cache["nmap -sV 10.0.0.5"] \o "\n(CACHE)"
  /\ _command_cache["nmap -sV 10.0.0.5"] =
       "Puertos Abiertos Encontrados:\n- 80/tcp http Apache/2.4.41\n- 443/tcp ssl/http "
         \o Repeat("v", 130) \o "  \n- 80/tcp http Apache/2.4.41"

\* C11: a call of persist on a non-empty log whose file can be opened returns
\* the path it wrote: when the log serializes to at most 50 KB the plain path,
\* where the uncompressed file is; when it serializes to more, path + ".gz",
\* where the compressed file is and decompresses to the same records in the
\* same order, while nothing is left at the plain path.
C11_PersistReturnsPath ==
  (last_call.op = "persist" /\ last_call.io = "ok" /\ mission_log # <<>>) =>
    IF Len(JsonDumpIndented(mission_log)) <= COMPRESS_THRESHOLD
    THEN /\ last_call.val = last_call.out
         /\ last_call.out \in DOMAIN files
         /\ ~files[last_call.out].gzip
    ELSE /\ last_call.val = last_call.out \o ".gz"
         /\ last_call.out \o ".gz" \in DOMAIN files
         /\ files[last_call.out \o ".gz"].gzip
         /\ last_call.out \notin DOMAIN files
         /\ json_load(files[last_call.out \o ".gz"].data) = mission_log

\* the number of characters c among text[a..b]
CountChar(text, c, a, b) == Cardinality({k \in a..b : CharAt(text, k) = c})

\* the indices of text that hold the character c
IndicesOf(text, c) == {k \in 1..Len(text) : CharAt(text, k) = c}

\* the '}' of text at which the nesting depth counted from start is zero
BalancedEnds(text, start) ==
  {k \in IndicesOf(text, "}") :
     /\ k > start
     /\ CountChar(text, "{", start, k) = CountChar(text, "}", start, k)}

\* C12: the block extractor returns exactly the substring from the first '{'
\* to the first '}' at which the nesting depth counted from that '{' is back
\* to zero, whatever precedes or follows; it returns no block when the text
\* has no '{' or the depth never returns to zero.
C12_MinimalBalancedBlock ==
  (last_call.op = "_extract_json_block") =>
    IF IndicesOf(last_call.text, "{") = {}
    THEN last_call.val = None
    ELSE IF BalancedEnds(last_call.text, MinOf(IndicesOf(last_call.text, "{"))) = {}
    THEN last_call.val = None
    ELSE last_call.val =
           SubSeq(last_call.text, MinOf(IndicesOf(last_call.text, "{")),
                  MinOf(BalancedEnds(last_call.text,
                                     MinOf(IndicesOf(last_call.text, "{")))))

\* a nested block between noise that holds a '}' before and a block after
C12_Witness ==
  /\ last_call.op = "_extract_json_block"
  /\ last_call.text = "}{{}}{}"
  /\ last_call.val = "{{}}"

\* what an oracle call, an execution, a cache store, a registration or an
\* audit-log append changes
MissionEffects ==
  <<cycles, mission_log, custom_tools, dynamic_arsenal_file, _command_cache,
    service_fingerprints, store_calls>>

C13_Step ==
  /\ (pc = "AWAITING_AUTHORIZATION" /\ Lower(last_call'.auth) \notin {"a", "s"})
       => /\ pc' = "TERMINATED"
          /\ last_call'.did = "nothing"
          /\ UNCHANGED MissionEffects
  /\ pc # "TERMINATED"

\* C13: at the authorization prompt every answer other than approve and
\* refine moves the controller to TERMINATED and executes nothing; no step
\* is taken from TERMINATED, so nothing is called, executed, stored,
\* registered or logged afterwards.
C13_OtherInputTerminates == [][C13_Step]_vars

\* the operator answered "n" to a proposal the gate would have let through
C13_Witness ==
  /\ pc = "TERMINATED"
  /\ last_call.op = "abort"
  /\ last_call.auth = "n"
  /\ last_call.action = ShellNmap
  /\ mission_log = InitialLog
  /\ store_calls = <<>>

\* the approve step that is being taken executes an action that the gate does
\* not let through, or whose process times out or cannot be spawned
C14_Failing ==
  /\ pc = "AWAITING_AUTHORIZATION"
  /\ last_call'.op = "execute_action"
  /\ last_call'.action.tipo = "COMANDO_SHELL"
  /\ last_call'.action.payload \notin {None, ""}
  /\ \/ ~PassesGate(last_call'.action.payload, custom_tools)
     \/ last_call'.outcome.kind \in {"timeout", "oserror"}

\* the text such a step returns
C14_Text ==
  IF ~PassesGate(last_call'.action.payload, custom_tools)
  THEN IF Strip(last_call'.action.payload) = ""
       THEN {"Error Critico durante la ejecucion: list index out of range"}
       ELSE {"Comando rechazado por politica de seguridad local (no permitido)."}
  ELSE IF last_call'.outcome.kind = "timeout"
  THEN {"Error Critico durante la ejecucion: Command '" \o last_call'.action.payload
          \o "' timed out after 900 seconds"}
  ELSE {"Error Critico durante la ejecucion: [Errno 12] Cannot allocate memory"}

\* new is old with one event appended, cut to its latest entries
AppendedOne(old, new, event) ==
  /\ new # <<>>
  /\ new[Len(new)] = event
  /\ Len(new) <= Len(old) + 1
  /\ \A k \in 1..(Len(new) - 1) : new[k] = old[Len(old) - (Len(new) - 1) + k]

C14_Step ==
  C14_Failing =>
    /\ last_output' \in C14_Text
    /\ AppendedOne(mission_log, mission_log',
                   [decision |-> decision, resultado |-> last_output'])
    /\ pc' = "AWAITING_DECISION"
    /\ UNCHANGED <<custom_tools, dynamic_arsenal_file, _command_cache,
                   service_fingerprints, store_calls>>

\* C14: an approved action that the policy gate rejects, that times out or
\* that cannot be spawned does not end the mission: execute_action returns a
\* text that says what happened, the text is the next cycle's last result,
\* one ActionExecuted entry holding the decision and that text is appended to
\* the log, and the controller is back at AWAITING_DECISION.
C14_FailureIsNonFatal == [][C14_Step]_vars

\* a timed-out scan in the second cycle, logged after the first cycle's entry
C14_Witness ==
  /\ pc = "AWAITING_DECISION"
  /\ last_call.op = "execute_action"
  /\ last_call.outcome.kind = "timeout"
  /\ last_output = "Error Critico durante la ejecucion: Command 'nmap -sV 10.0.0.5' timed out after 900 seconds"
  /\ Len(mission_log) = _max_log_entries
  /\ "resultado" \in DOMAIN mission_log[1]
  /\ mission_log[1].resultado = "Comando rechazado por politica de seguridad local (no permitido)."
  /\ mission_log[2] = [decision |-> decision, resultado |-> last_output]

C15_Step ==
  /\ (pc = "AWAITING_AUTHORIZATION" /\ last_call'.op = "refine")
       => /\ commander_directive' \in Directives
          /\ mission_log' = Append(mission_log,
               [evento |-> "Directiva del Comandante",
                directiva |-> commander_directive', plan_anterior |-> decision])
          /\ Contains(last_output', commander_directive')
          /\ pc' = "AWAITING_DECISION"
          /\ UNCHANGED <<custom_tools, dynamic_arsenal_file, _command_cache,
                         service_fingerprints, store_calls>>
  /\ (last_call'.op = "get_ai_decision")
       => /\ last_call'.directiva_comandante =
               (IF last_call.op = "refine" THEN commander_directive ELSE None)
          /\ last_call.op = "refine" => commander_directive \in Directives
          /\ commander_directive' = None

C16_OnceRunsOneCycle == cycles <= 1

\* the lines of s
RECURSIVE LinesOf(_)
LinesOf(s) ==
  IF ~Contains(s, "\n")
  THEN <<s>>
  ELSE <<Slice(s, 1, Find(s, "\n") - 1)>> \o LinesOf(Slice(s, Find(s, "\n") + 1, Len(s)))

\* the fingerprints of the lines of output that have the open-port shape
LineFingerprints(output) ==
  With(LinesOf(output), LAMBDA lines :
    With([k \in 1..Len(lines) |-> MatchOpenPort(lines[k], 1)], LAMBDA m :
      { Slice(m[k].p \o " " \o m[k].sv \o " " \o Strip(m[k].v), 1, 120)
        : k \in {j \in 1..Len(lines) : m[j].ok} }))

C17_Step ==
  /\ service_fingerprints \subseteq service_fingerprints'
  /\ \A fp \in service_fingerprints' : Len(fp) <= 120
  /\ ( /\ last_call'.op = "execute_action"
       /\ last_call'.outcome.kind = "completed"
       /\ Strip(last_call'.outcome.output) # ""
       /\ last_call'.action.herramienta # None
       /\ Contains(last_call'.action.herramienta, "nmap") )
       => service_fingerprints' =
            service_fingerprints \cup LineFingerprints(last_call'.outcome.output)

\* C17: no step of a mission removes an element of the service-fingerprint
\* set, every element is at most 120 characters long, and a scanner triage
\* adds, for each output line of the open-port shape, the line's fingerprint
\* cut to 120 characters, equal fingerprints being one element.
C17_FingerprintsOnlyGrow == [][C17_Step]_vars

\* a scan that reported port 80 twice and port 443 with a long version text
C17_Witness ==
  /\ last_call.op = "execute_action"
  /\ last_call.did = "spawn"
  /\ last_call.outcome.output = NmapOutput
  /\ service_fingerprints =
       {"80/tcp http Apache/2.4.41", "443/tcp ssl/http " \o Repeat("v", 103)}

\* C18: in every reachable state, the state right after startup has loaded
\* the persisted registry file included, every entry of the tool registry has
\* a name made only of letters, digits, '_' and '-' and a template that holds
\* none of ';', '&&', '|', '||'.
C18_RegistryEntriesValid ==
  \A name \in DOMAIN custom_tools :
    /\ Len(name) > 0
    /\ \A i \in 1..Len(name) : CharAt(name, i) \in Letters \cup Digits \cup {"_", "-"}
    /\ ~HasSeparator(custom_tools[name])

\* C19: whatever the interleaving of the threads' stores and lookups, the
\* cache map is read and written only by the thread that holds the lock, at
\* most one thread is inside the with block, the map holds for every command
\* the value written last for it, and a lookup(c) returns None or a value
\* that a store(c, v) of exactly that command has written before.
C19_CacheAccessUnderLock ==
  /\ last_call.op = "access" => last_call.holder = last_call.thread
  /\ Cardinality({t \in Threads : threads[t].pc \in {"locked", "release"}}) <= 1
  /\ \A t \in Threads :
       threads[t].pc \in {"locked", "release"} => _command_cache_lock = t
  /\ \A c \in ThreadCommands :
       MostRecentStore(store_calls, c) =
         (IF c \in DOMAIN _command_cache THEN _command_cache[c] ELSE None)
  /\ (last_call.op = "return" /\ last_call.call = "_cache_lookup")
       => \/ last_call.val = None
          \/ \E k \in 1..Len(store_calls) :
               store_calls[k] = [cmd |-> last_call.cmd, value |-> last_call.val]

\* a lookup returns the value a store wrote while the other thread, which is
\* storing another value for the same command, waits for the lock
C19_Witness ==
  /\ last_call.op = "access"
  /\ last_call.call = "_cache_lookup"
  /\ last_call.thread = "t1"
  /\ last_call.val = "OK"
  /\ store_calls = <<[cmd |-> last_call.cmd, value |-> "OK"]>>
  /\ threads["t2"].pc = "acquire"
  /\ threads["t2"].call = "_cache_store"
  /\ threads["t2"].cmd = last_call.cmd
  /\ threads["t2"].value # "OK"

\* no match of the open-port pattern begins at the start of a line of output
NoOpenPort(output) ==
  \A j \in 1..Len(output) :
    (j = 1 \/ CharAt(output, j - 1) = "\n") => ~MatchOpenPort(output, j).ok

\* the output is empty or holds white space only
Blank(output) == \A j \in 1..Len(output) : CharAt(output, j) \in Whitespace

\* C20 as stated: for a tool whose identifier contains "nmap", triage returns
\* the "no open ports" message whenever the output has no open-port line, an
\* empty or all-whitespace output included; the "no output" message is
\* returned only for tools whose identifier does not contain "nmap".
C20_ScannerNeverSaysNoOutput ==
  (last_call.op = "_triage_output") =>
    /\ (Contains(last_call.tool_name, "nmap") /\ NoOpenPort(last_call.tool_output))
         => last_call.val = "Nmap no encontro puertos abiertos."
    /\ last_call.val = "La herramienta no produjo ninguna salida."
         => ~Contains(last_call.tool_name, "nmap")

\* C20 as amended: an empty or all-whitespace output gives the "no output"
\* message for every tool, scanners included; for a tool whose identifier
\* contains "nmap" an output that is not blank and has no match of the
\* open-port pattern gives the "no open ports" message; the "no output"
\* message is returned for blank outputs only.
C20_BlankOutputComesFirst ==
  (last_call.op = "_triage_output") =>
    /\ Blank(last_call.tool_output)
         <=> last_call.val = "La herramienta no produjo ninguna salida."
    /\ ( /\ Contains(last_call.tool_name, "nmap")
         /\ ~Blank(last_call.tool_output)
         /\ NoOpenPort(last_call.tool_output) )
         => last_call.val = "Nmap no encontro puertos abiertos."

\* a scanner whose process wrote white space only is told "no output"
C20_Witness ==
  /\ last_call.op = "_triage_output"
  /\ last_call.tool_name = "nmap_quick_scan"
  /\ last_call.tool_output = "  \n"
  /\ last_call.val = "La herramienta no produjo ninguna salida."

\* the decoded reply d carries an action object under one of the two names
C21_CarriesAction(d) ==
  /\ d.json = "dict"
  /\ \/ d.accion_propuesta.json = "dict"
     \/ d.accion_a_ejecutar.json = "dict"

\* C21: a decoded oracle reply that carries the action under accion_propuesta
\* or under accion_a_ejecutar is accepted as a proposal (the controller asks
\* for authorization); one that carries it under neither name, the empty
\* object included, is a format failure: a FormatFailure entry is logged, the
\* corrective last result is set and the controller is back in
\* AWAITING_DECISION, not terminated.
C21_EitherNameOrFormatFailure ==
  (last_call.op = "get_ai_decision" /\ decision.json \in {"dict", "emptydict"}) =>
    IF C21_CarriesAction(decision)
    THEN pc = "AWAITING_AUTHORIZATION"
    ELSE /\ pc = "AWAITING_DECISION"
         /\ last_output = "La ultima respuesta no contenia una 'accion_propuesta' valida. Reformula tu plan."
         /\ mission_log[Len(mission_log)] =
              [evento |-> "Fallo de formato IA", respuesta_bruta |-> decision]

\* the last n elements of seq (all of it when it has fewer)
LastN(seq, n) ==
  IF Len(seq) <= n THEN seq ELSE SubSeq(seq, Len(seq) - n + 1, Len(seq))

\* C22: at every point of a mission the audit log is a contiguous suffix of
\* the sequence of all events appended so far, in arrival order; right after
\* the step that evicts (the append of an executed action that overflows the
\* bound) the log is the last N appended events.
C22_LogIsSuffixOfHistory ==
  /\ \E n \in 0..Len(log_history) : mission_log = LastN(log_history, n)
  /\ (last_call.op = "execute_action" /\ Len(log_history) > _max_log_entries)
       => mission_log = LastN(log_history, _max_log_entries)

\* the append of an executed action overflowed the bound and evicted the
\* initial entry
C22_Witness ==
  /\ last_call.op = "execute_action"
  /\ Len(log_history) = _max_log_entries + 1
  /\ Len(mission_log) = _max_log_entries
  /\ log_history[1] = InitialLog[1]
  /\ mission_log[1] = log_history[2]
  /\ mission_log[1] # InitialLog[1]

C23_Step ==
  /\ \A c \in DOMAIN _command_cache' :
       \E t \in CACHEABLE_PREFIXES : IsFirstToken(c, t)
  /\ (_command_cache' # _command_cache)
       => /\ pc = "AWAITING_AUTHORIZATION"
          /\ last_call'.op = "execute_action"
          /\ last_call'.action.tipo = "COMANDO_SHELL"
          /\ PassesGate(last_call'.action.payload, custom_tools)
          /\ last_call'.did = "spawn"
          /\ last_call'.outcome.kind = "completed"
          /\ DOMAIN _command_cache' = DOMAIN _command_cache \cup {last_call'.action.payload}
          /\ \A c \in DOMAIN _command_cache : _command_cache'[c] = _command_cache[c]
  /\ (CACHEABLE_PREFIXES = {})
       => /\ DOMAIN _command_cache' = {}
          /\ last_call'.did # "cache_hit"

\* C23: every key of the cache is a command whose leading token is in the
\* cacheable-prefix set; an entry is created only by the approve step of a
\* shell command that passes the policy gate and whose process completed, so
\* never by a rejected command, a timeout, a failed spawn, a web search or a
\* registration; when --disable-cache has cleared the prefix set the cache
\* stays empty and no lookup finds anything.
C23_OnlyCompletedCacheableStored == [][C23_Step]_vars

\* with --disable-cache the same scan ran twice: both times a process was
\* spawned and nothing was cached
C23_Witness ==
  /\ CACHEABLE_PREFIXES = {}
  /\ last_call.op = "execute_action"
  /\ last_call.did = "spawn"
  /\ last_call.outcome.kind = "completed"
  /\ Len(store_calls) = 2
  /\ store_calls[1].cmd = "nmap -sV 10.0.0.5"
  /\ store_calls[2].cmd = "nmap -sV 10.0.0.5"
  /\ DOMAIN _command_cache = {}

\* C24: _is_command_allowed is total: for every payload, a payload of only
\* whitespace (no first token) included, it returns a boolean and raises
\* nothing, and the boolean is False when the payload has no first token.
C24_GateIsTotal ==
  (last_call.op = "_is_command_allowed") =>
    /\ last_call.exc = "none"
    /\ last_call.val \in BOOLEAN
    /\ (Split(last_call.cmd) = <<>>) => (last_call.val = FALSE)

EndsWith(s, suffix) ==
  /\ Len(s) >= Len(suffix)
  /\ SubSeq(s, Len(s) - Len(suffix) + 1, Len(s)) = suffix

C25_Step ==
  /\ ( /\ last_call.op = "persist" /\ last_call.io = "ok"
       /\ last_call'.op = "persist" /\ last_call'.io = "ok"
       /\ mission_log' = mission_log )
       => /\ log_output_path' = log_output_path
          /\ files' = files
  /\ (last_call'.op = "persist" /\ last_call'.io = "ok" /\ mission_log # <<>>)
       => /\ log_output_path' \in DOMAIN files'
          /\ EndsWith(log_output_path', ".gz") <=> files'[log_output_path'].gzip
          /\ ~EndsWith(log_output_path', ".gz.gz")

\* C25: _persist_mission_log is idempotent on an unchanged log: a second call
\* right after a first one leaves the remembered path and the files as the
\* first call left them, below and above the 50 KB threshold; after any call
\* the remembered path ends in ".gz" exactly when the file there is
\* gzip-compressed, and it never carries more than one ".gz" suffix.
C25_PersistIdempotent == [][C25_Step]_vars

====
